---- MODULE Spec2Model ----
(***************************************************************************)
(* Affarsverken waste collection client (sensor.py): the persistent cache  *)
(* store, the token manager, the building resolver, the waste data fetcher *)
(* and the per-address refresh cycle driven by a DataUpdateCoordinator.    *)
(*                                                                         *)
(* Time is counted in whole seconds.  Python None is modelled by a value   *)
(* of kind "None"; falsy values (None, "", {}, []) are told apart from     *)
(* truthy ones exactly where the code tests truthiness.                    *)
(***************************************************************************)
EXTENDS Integers, Sequences, FiniteSets, TLC

\* ------------------------------------------------------------------------
\* Program constants (seconds)
\* ------------------------------------------------------------------------
BUILDING_CACHE_LIFETIME == 2592000
TOKEN_SAFETY_MARGIN == 300
DEFAULT_TOKEN_VALIDITY == 3600

\* ------------------------------------------------------------------------
\* Bounds of the model
\* ------------------------------------------------------------------------
MaxCycles == 2
MaxFaults == 1
MaxServices == 2

Addr == {"A", "B"}
QueryParams == {"B123", "B456"}

\* instants at which the clock is observed
TimePoints ==
    {0, BUILDING_CACHE_LIFETIME - 1, BUILDING_CACHE_LIFETIME}

\* ------------------------------------------------------------------------
\* Values
\* ------------------------------------------------------------------------
\* a bearer token text: id names the text, claim is what jwt.decode finds
\* in it ("exp": an exp claim of value exp, "noexp": a payload without exp,
\* "undecodable": jwt.decode raises)
NoToken == [k |-> "None", id |-> "", claim |-> "none", exp |-> 0]
Token(id, claim, exp) == [k |-> "str", id |-> id, claim |-> claim, exp |-> exp]
Truthy(tok) == tok.k = "str" /\ tok.id # ""

\* a stored timestamp string
NoStamp == [k |-> "None", t |-> 0, tz |-> FALSE]
GarbageStamp == [k |-> "garbage", t |-> 0, tz |-> FALSE]

\* datetime.isoformat() of an aware UTC datetime
isoformat(t) == [k |-> "iso", t |-> t, tz |-> TRUE]

\* datetime.fromisoformat(), followed by replace(tzinfo=UTC) for a naive
\* value: the instant, or -1 when fromisoformat raises ValueError
FromIsoRaises(s) == s.k # "iso"
fromisoformat(s) == IF s.k = "iso" THEN s.t ELSE -1

\* one entry of the buildings map
NoBuilding == [k |-> "None", query_param |-> "", last_updated |-> NoStamp]
Building(q, lu) == [k |-> "dict", query_param |-> q, last_updated |-> lu]

\* the cache document
Doc(tok, exp, blds) ==
    [token |-> tok, token_expiration_time |-> exp, buildings |-> blds]
EmptyDoc == Doc(NoToken, NoStamp, [a \in Addr |-> NoBuilding])

\* the cache file on disk
\*   absent      no file
\*   unreadable  open() raises IOError
\*   badjson     text that is not JSON
\*   badbytes    bytes that are not valid UTF-8
\*   nondict     valid JSON that is not an object
\*   partial     truncated by open(path, 'w'), not (fully) written yet
\*   doc         a JSON object
File(k, d) == [k |-> k, doc |-> d]
AbsentFile == File("absent", EmptyDoc)
PartialFile == File("partial", EmptyDoc)
DocFile(d) == File("doc", d)

\* ------------------------------------------------------------------------
\* Persistent cache store
\* ------------------------------------------------------------------------
load_cache_data_uncaught(f) ==
    CASE f.k = "absent" -> [k |-> "dict", doc |-> EmptyDoc]
      [] f.k = "doc" -> [k |-> "dict", doc |-> f.doc]
      [] f.k = "nondict" -> [k |-> "nondict", doc |-> EmptyDoc]
      [] OTHER -> [k |-> "raise", doc |-> EmptyDoc]

\* _load_cache_data, lines 65-76: what the call returns, or that it raises
load_cache_data(f) ==
    CASE f.k = "absent" -> [k |-> "dict", doc |-> EmptyDoc]
      [] f.k = "unreadable" -> [k |-> "dict", doc |-> EmptyDoc]
      [] f.k = "badjson" -> [k |-> "dict", doc |-> EmptyDoc]
      [] f.k = "partial" -> [k |-> "dict", doc |-> EmptyDoc]
      [] f.k = "badbytes" -> [k |-> "raise", doc |-> EmptyDoc]
      [] f.k = "nondict" -> [k |-> "nondict", doc |-> EmptyDoc]
      [] OTHER -> [k |-> "dict", doc |-> f.doc]

\* _save_cache_data, line 83: the file once json.dump(data, f) is complete
json_dump_nothing(data) == DocFile(EmptyDoc)

json_dump(data) == DocFile(data)

\* ------------------------------------------------------------------------
\* Token manager: pure parts
\* ------------------------------------------------------------------------
\* line 113: cached_token and token_expiration_time and now < expiration
TokenFreshInverted(tok, exp, t) ==
    Truthy(tok) /\ exp.k = "iso" /\ fromisoformat(exp) < t

TokenFreshLate(tok, exp, t) ==
    Truthy(tok) /\ exp.k = "iso" /\ t <= fromisoformat(exp)

TokenFresh(tok, exp, t) ==
    Truthy(tok) /\ exp.k = "iso" /\ t < fromisoformat(exp)

\* lines 157-158: the document with the new token and its expiration
StoreTokenNoExpiry(doc, tok, exp) == [doc EXCEPT !.token = tok]

StoreToken(doc, tok, exp) ==
    [doc EXCEPT !.token = tok, !.token_expiration_time = isoformat(exp)]

new_token_expiration_time_unreduced(tok, t) ==
    IF tok.claim = "exp" THEN tok.exp ELSE t + DEFAULT_TOKEN_VALIDITY

\* lines 138-154: expiration of a freshly minted token
new_token_expiration_time(tok, t) ==
    IF tok.claim = "exp" THEN tok.exp - TOKEN_SAFETY_MARGIN
    ELSE t + DEFAULT_TOKEN_VALIDITY

\* ------------------------------------------------------------------------
\* Building resolver: pure parts
\* ------------------------------------------------------------------------
\* line 183: last_updated_str and query_param
BuildingUsable(b) ==
    b.k = "dict" /\ b.last_updated.k # "None" /\ b.query_param # ""

\* lines 219-223: upsert of buildings[address]
StoreBuildingDropped(doc, address, q, t) == doc

StoreBuilding(doc, address, q, t) ==
    [doc EXCEPT !.buildings[address] = Building(q, isoformat(t))]

BuildingFreshLate(b, t) ==
    t - fromisoformat(b.last_updated) <= BUILDING_CACHE_LIFETIME

\* line 187
BuildingFresh(b, t) ==
    t - fromisoformat(b.last_updated) < BUILDING_CACHE_LIFETIME

\* ------------------------------------------------------------------------
\* Waste data: response bodies and the parser
\* ------------------------------------------------------------------------
NoneStr == "<None>"

\* a JSON number where a string is expected
NumberValue == "<number>"

\* one element of the services array; the vendor empties the small bin
\* more often than the large one
Service(title, nextPickup, binSize) ==
    [k |-> "dict", title |-> title, nextPickup |-> nextPickup,
     binSize |-> binSize, binSizeUnit |-> "L",
     pickupFrequencyDescription |->
         IF binSize = 190 THEN "every 2 weeks" ELSE "every 4 weeks"]

\* a decoded JSON body (or None)
NoBody == [k |-> "None", services |-> [k |-> "absent", items |-> <<>>]]
Body(k, sk, items) == [k |-> k, services |-> [k |-> sk, items |-> items]]

\* bool(value) of a str: None and "" are falsy
StrTruthy(s) == s # NoneStr /\ s # ""

\* bool(waste_data), line 320
BodyTruthy(b) == b.k \in {"dict", "list"}

\* datetime.strptime(s, "%Y-%m-%d").date(); year 0 stands for ValueError
NoDate == [y |-> 0, m |-> 0, d |-> 0]
strptime(s) ==
    CASE s = "2025-03-10" -> [y |-> 2025, m |-> 3, d |-> 10]
      [] s = "2025-3-10" -> [y |-> 2025, m |-> 3, d |-> 10]
      [] s = "2025-03-24" -> [y |-> 2025, m |-> 3, d |-> 24]
      [] OTHER -> NoDate

\* lines 283-300, the loop over data["services"], from entry i on;
\* acc is collection_dates so far, as a function title -> date; an entry
\* that is not an object has no get (AttributeError, line 284) and a
\* nextPickup that is not a str makes strptime raise TypeError, which the
\* except of line 298 does not catch
RECURSIVE parse_services(_, _, _)
parse_services(items, i, acc) ==
    IF i > Len(items) THEN [raised |-> FALSE, dates |-> acc]
    ELSE LET service == items[i] IN
         IF service.k # "dict" THEN [raised |-> TRUE, dates |-> <<>>]
         ELSE IF ~(StrTruthy(service.title) /\ StrTruthy(service.nextPickup))
              THEN parse_services(items, i + 1, acc)
         ELSE IF service.nextPickup = NumberValue
              THEN [raised |-> TRUE, dates |-> <<>>]
         ELSE IF strptime(service.nextPickup) = NoDate
              THEN parse_services(items, i + 1, acc)
         ELSE parse_services(items, i + 1,
                  [t \in (DOMAIN acc) \cup {service.title} |->
                      IF t = service.title THEN strptime(service.nextPickup)
                      ELSE acc[t]])

\* lines 274-300
parse_collection_dates(body) ==
    IF body.k \notin {"dict", "emptydict"}
    THEN [raised |-> TRUE, dates |-> <<>>]
    ELSE IF body.services.k # "list"
    THEN [raised |-> FALSE, dates |-> <<>>]
    ELSE parse_services(body.services.items, 1, <<>>)

\* ------------------------------------------------------------------------
\* Refresh orchestrator: pure parts
\* ------------------------------------------------------------------------
NoData == [k |-> "None", parsed_dates |-> <<>>, raw_data |-> NoBody]
Failed == [k |-> "UpdateFailed", parsed_dates |-> <<>>, raw_data |-> NoBody]

async_update_data_accepting_empty(w) ==
    IF w.k = "raise" THEN Failed
    ELSE IF ~BodyTruthy(w) THEN Failed
    ELSE LET p == parse_collection_dates(w) IN
         IF p.raised THEN Failed
         ELSE [k |-> "data", parsed_dates |-> p.dates, raw_data |-> w]

\* lines 316-329: what one call of the update method produces from the
\* outcome of get_waste_data (a body, None, or an exception)
async_update_data_for_address(w) ==
    IF w.k = "raise" THEN Failed
    ELSE IF ~BodyTruthy(w) THEN Failed
    ELSE LET p == parse_collection_dates(w) IN
         IF p.raised THEN Failed
         ELSE IF DOMAIN p.dates = {} THEN Failed
         ELSE [k |-> "data", parsed_dates |-> p.dates, raw_data |-> w]

\* lines 320-329: the cause the UpdateFailed of a failed call carries, ""
\* for a call that returns; stage is where get_waste_data gave up
cause(w, stage) ==
    IF w.k = "raise" THEN "exception"
    ELSE IF ~BodyTruthy(w) THEN stage
    ELSE LET p == parse_collection_dates(w) IN
         IF p.raised THEN "parse"
         ELSE IF DOMAIN p.dates = {} THEN "norecords"
         ELSE ""

\* AffarsverkenWasteSensor.native_value, lines 374-381
native_value(d, waste_type) ==
    IF waste_type \in DOMAIN d.parsed_dates
    THEN d.parsed_dates[waste_type] ELSE NoDate

\* date.toordinal(), as (collection_date - today).days of line 393 needs it
DaysBeforeMonth == <<0, 31, 59, 90, 120, 151, 181, 212, 243, 273, 304, 334>>
IsLeap(y) == y % 4 = 0 /\ (y % 100 # 0 \/ y % 400 = 0)
toordinal(date) ==
    LET y == date.y - 1 IN
    y * 365 + (y \div 4) - (y \div 100) + (y \div 400)
    + DaysBeforeMonth[date.m]
    + (IF date.m > 2 /\ IsLeap(date.y) THEN 1 ELSE 0)
    + date.d

\* collection_date.strftime("%Y-%m-%d"), line 397: zero-padded fields
strftime(date) ==
    CASE date = [y |-> 2025, m |-> 3, d |-> 10] -> "2025-03-10"
      [] date = [y |-> 2025, m |-> 3, d |-> 24] -> "2025-03-24"
      [] OTHER -> NoneStr

\* the attributes dict; a key that was never set reads Absent
Absent == "<absent>"
NoAttributes ==
    [k |-> "empty", days_until_pickup |-> 0, pickup_date |-> Absent,
     waste_type |-> Absent, bin_size |-> 0, bin_size_unit |-> Absent,
     pickup_frequency_description |-> Absent]
AttributesRaised == [NoAttributes EXCEPT !.k = "raised"]

\* the loop of lines 400-405 from entry i on: the first entry whose title
\* is waste_type sets the three bin attributes and ends the loop; an entry
\* that is not an object has no get
RECURSIVE bin_attributes(_, _, _, _)
bin_attributes(items, i, waste_type, attributes) ==
    IF i > Len(items) THEN attributes
    ELSE LET service == items[i] IN
         IF service.k # "dict" THEN AttributesRaised
         ELSE IF service.title = waste_type
         THEN [attributes EXCEPT
                  !.bin_size = service.binSize,
                  !.bin_size_unit = service.binSizeUnit,
                  !.pickup_frequency_description =
                      service.pickupFrequencyDescription]
         ELSE bin_attributes(items, i + 1, waste_type, attributes)

\* AffarsverkenWasteSensor.extra_state_attributes, lines 383-407; d is
\* coordinator.data and today is datetime.now().date()
extra_state_attributes(d, waste_type, today) ==
    IF waste_type \notin DOMAIN d.parsed_dates THEN NoAttributes
    ELSE LET collection_date == d.parsed_dates[waste_type]
             services == IF d.raw_data.services.k = "list"
                         THEN d.raw_data.services.items ELSE <<>> IN
         bin_attributes(services, 1, waste_type,
             [NoAttributes EXCEPT
                 !.k = "attrs",
                 !.days_until_pickup =
                     toordinal(collection_date) - toordinal(today),
                 !.pickup_date = strftime(collection_date),
                 !.waste_type = waste_type])

\* lines 331-337: the coordinator keeps its data when the update method
\* raises UpdateFailed and replaces it when the method returns
CoordinatorDataCleared(old, res) ==
    IF res.k = "data" THEN res ELSE NoData

CoordinatorData(old, res) ==
    IF res.k = "data" THEN res ELSE old

\* async_setup_entry, lines 339-345: async_config_entry_first_refresh
\* raises ConfigEntryNotReady when the first refresh fails and the function
\* ends there; otherwise one entity per key of the first parsed_dates is
\* created
NoEntities == [k |-> "pending", types |-> {}]

setup_entities_regardless(res) ==
    [k |-> "created", types |-> DOMAIN res.parsed_dates]

setup_entities(res) ==
    IF res.k = "data"
    THEN [k |-> "created", types |-> DOMAIN res.parsed_dates]
    ELSE [k |-> "not_ready", types |-> {}]

\* ------------------------------------------------------------------------
\* Vendor answers
\* ------------------------------------------------------------------------
\* POST login: transport error, HTTP error status, blank body, token text
TokenTexts(t) ==
    {Token("long", "exp", t + 7200), Token("short", "exp", t + 200),
     Token("plain", "noexp", 0), Token("opaque", "undecodable", 0)}

LoginResponses(t, v) ==
    {[k |-> x, token |-> NoToken] : x \in {"transport", "http", "empty"}}
    \cup {[k |-> "token", token |-> tok] :
              tok \in {x \in TokenTexts(t) : x.id \in v.tokens}}

\* GET search: errors, a body that is not JSON, [], a non-list, a first
\* element without query, a first element that is not an object, a result
SearchResponses(v) ==
    {[k |-> x, query |-> ""] :
         x \in {"transport", "http", "badjson", "empty", "nonlist",
                "noquery", "nondict"}}
    \cup {[k |-> "ok", query |-> q] : q \in v.queries}

\* a vendor: the token texts it mints and the building keys it returns
FullVendor ==
    [tokens |-> {"long", "short", "plain", "opaque"}, queries |-> QueryParams]
PlainVendor == [tokens |-> {"long"}, queries |-> {"B123"}]

\* the schedule the vendor publishes at time t: pickups move on as the
\* days pass, a stream appears in the list before its first pickup is
\* planned and a stream stays in the list when no pickup is planned any
\* more
Schedule(t) ==
    IF t = 0
    THEN Body("dict", "list", <<Service("Paper", "2025-03-10", 190)>>)
    ELSE IF t < BUILDING_CACHE_LIFETIME
    THEN Body("dict", "list", <<Service("Paper", "2025-03-24", 190),
                                Service("Glass", NoneStr, 240)>>)
    ELSE Body("dict", "list", <<Service("Paper", NoneStr, 190),
                                Service("Glass", "2025-03-24", 240)>>)

GoodBodies == {Schedule(t) : t \in TimePoints}

WasteBodies ==
    GoodBodies \cup
    { Body("emptydict", "absent", <<>>),
      Body("dict", "absent", <<>>),
      Body("list", "absent", <<>>),
      Body("dict", "list", <<Service("Paper", "not-a-date", 190)>>) }

\* GET waste at time t: errors and a body that is not JSON give None
\* (lines 265-272); a served call brings the schedule of the day or a body
\* of another shape
WasteResponses(t) ==
    {[k |-> x, body |-> NoBody] : x \in {"transport", "http", "badjson"}}
    \cup {[k |-> "ok", body |-> b] :
              b \in (WasteBodies \ GoodBodies) \cup {Schedule(t)}}

\* ------------------------------------------------------------------------
\* Bodies handed to parse_collection_dates on its own
\* ------------------------------------------------------------------------
NonDictEntry ==
    [k |-> "None", title |-> NoneStr, nextPickup |-> NoneStr, binSize |-> 0,
     binSizeUnit |-> NoneStr, pickupFrequencyDescription |-> NoneStr]

ServiceEntries ==
    {Service(t, p, 190) :
         t \in {NoneStr, "", "Paper", "Glass"},
         p \in {NoneStr, "", "2025-03-10", "2025-3-10", "2025-03-24",
                "not-a-date", NumberValue}}
    \cup {NonDictEntry}

RECURSIVE Lists(_, _)
Lists(S, n) ==
    IF n = 0 THEN {<<>>}
    ELSE LET shorter == Lists(S, n - 1) IN
         shorter \cup {Append(l, x) : l \in shorter, x \in S}

ParseInputs ==
    {Body("dict", "list", items) : items \in Lists(ServiceEntries, MaxServices)}
    \cup {Body("dict", "absent", <<>>), Body("dict", "notlist", <<>>),
          Body("emptydict", "absent", <<>>), Body("list", "absent", <<>>)}

NoParse == [k |-> "pending", dates |-> <<>>]

\* ------------------------------------------------------------------------
\* What an entity reports
\* ------------------------------------------------------------------------
\* services lists with titles that repeat, dated and undated entries and
\* bins of two sizes
EntityEntries ==
    {Service(t, p, b) :
         t \in {"Paper", "Glass"},
         p \in {NoneStr, "2025-03-10", "2025-3-10", "2025-03-24",
                "not-a-date"},
         b \in {190, 240}}

EntityBodies ==
    {Body("dict", "list", items) : items \in Lists(EntityEntries, MaxServices)}

\* what a coordinator holds after a successful refresh of such a body
EntityData ==
    {async_update_data_for_address(b) : b \in EntityBodies} \ {Failed}

\* datetime.now().date() when the state is written
Todays == {[y |-> 2025, m |-> 3, d |-> 1], [y |-> 2025, m |-> 3, d |-> 24]}

\* the state of an entity as Home Assistant records it
NoState ==
    [address |-> "", waste_type |-> Absent, native_value |-> NoDate,
     attributes |-> NoAttributes]

\* ------------------------------------------------------------------------
\* Config flow (config_flow.py)
\* ------------------------------------------------------------------------
\* a str is a sequence of characters
Domain == <<"affarsverken_waste">>

\* str.replace(old, new) for single characters
replace(str, old, new) ==
    [i \in DOMAIN str |-> IF str[i] = old THEN new ELSE str[i]]

\* str.lower()
lower(str) ==
    [i \in DOMAIN str |->
        CASE str[i] = "A" -> "a"
          [] str[i] = "B" -> "b"
          [] OTHER -> str[i]]

\* line 27: f"{DOMAIN}_{address.replace(' ', '_').lower()}"
unique_id_verbatim(address) == Domain \o <<"_">> \o address

unique_id(address) ==
    Domain \o <<"_">> \o lower(replace(address, " ", "_"))

\* the addresses and names a user types
FlowAddresses ==
    {<<x, y, "1">> : x \in {"A", "a", "B"}, y \in {" ", "_"}}
FlowNames == {NoneStr, "Home"}

\* user_input of async_step_user: None before the form is filled in
NoInput == [k |-> "None", address |-> <<>>, name |-> NoneStr]
UserInputs ==
    {NoInput} \cup
    {[k |-> "dict", address |-> ad, name |-> n] :
         ad \in FlowAddresses, n \in FlowNames}

\* the result of a flow step
NoResult == [type |-> "none", input |-> NoInput]

\* the config entry of lines 31-34 with the unique id set at line 28
ConfigEntry(user_input) ==
    [unique_id |-> unique_id(user_input.address), data |-> user_input]

\* ------------------------------------------------------------------------
\* State
\* ------------------------------------------------------------------------
VARIABLES
    now,                  \* the clock
    file,                 \* the cache file
    pc,                   \* where the cycle of each address stands
    loc,                  \* the locals of get_waste_data and its callees
    data,                 \* coordinator.data of each address
    last_update_success,  \* coordinator.last_update_success
    cycles,               \* refresh cycles started so far, per address
    calls,                \* network calls of the running cycle, in order
    served,               \* the vendor has served every call of that cycle
    lastSrch,             \* what the latest search_building_id call did
    why,                  \* why the latest cycle failed, "" if it did not
    vendor,               \* the vendor the client talks to
    faults,               \* failed calls and I/O errors so far
    ioFault,              \* an IOError has hit some save
    tainted,              \* the file was malformed from the start
    entities,             \* the set-up of each address and its entities
    config_entries,       \* the config entries the flow has created
    flow_result,          \* what the latest config-flow step returned
    parse_data,           \* a body handed to parse_collection_dates
    parse_result,         \* what that call gave
    ha_state              \* the entity state written last

sensorVars ==
    <<now, file, pc, loc, data, last_update_success, cycles, calls,
      served, lastSrch, why, vendor, faults, ioFault, tainted, entities>>
flowVars == <<config_entries, flow_result>>
parseVars == <<parse_data, parse_result>>
entityVars == <<ha_state>>
vars == <<sensorVars, flowVars, parseVars, entityVars>>

PendingBody == [k |-> "pending", services |-> [k |-> "absent", items |-> <<>>]]
RaisedBody == [k |-> "raise", services |-> [k |-> "absent", items |-> <<>>]]

NoLocals ==
    [stage |-> "idle", cache_data |-> EmptyDoc, auth_token |-> NoToken,
     search_token |-> NoToken, query_param |-> "", waste_data |-> PendingBody,
     fresh_start |-> FALSE]

\* lastSrch[a].out is "saved" when the latest complete search_building_id
\* call for a resolved the address by a search call and its save reached
\* the disk (ret and at are what it returned and when), "hit" when the
\* latest call was served from the cache right after such a call, and
\* "other" in every other case
NoSrch == [out |-> "other", at |-> 0, ret |-> ""]

\* files found at start-up
InitFiles ==
    { AbsentFile, File("unreadable", EmptyDoc), File("badjson", EmptyDoc),
      File("badbytes", EmptyDoc), File("nondict", EmptyDoc),
      DocFile(Doc(Token("long", "exp", 7200),
                  isoformat(7200 - TOKEN_SAFETY_MARGIN),
                  [a \in Addr |-> NoBuilding])),
      DocFile(Doc(Token("plain", "noexp", 0), isoformat(0),
                  [a \in Addr |-> IF a = "A"
                                  THEN Building("B123", isoformat(0))
                                  ELSE NoBuilding])),
      DocFile(Doc(Token("plain", "noexp", 0), GarbageStamp,
                  [a \in Addr |-> NoBuilding])),
      DocFile(Doc(NoToken, GarbageStamp, [a \in Addr |-> NoBuilding])) }

WellFormed(f) ==
    /\ f.k \notin {"badbytes", "nondict"}
    /\ f.doc.token_expiration_time.k # "garbage"
    /\ \A a \in Addr : f.doc.buildings[a].last_updated.k # "garbage"

InitSensor ==
    /\ now = 0
    /\ file \in InitFiles
    /\ pc = [a \in Addr |-> "idle"]
    /\ loc = [a \in Addr |-> NoLocals]
    /\ data = [a \in Addr |-> NoData]
    /\ last_update_success = [a \in Addr |-> TRUE]
    /\ cycles = [a \in Addr |-> 0]
    /\ calls = [a \in Addr |-> <<>>]
    /\ served = [a \in Addr |-> TRUE]
    /\ lastSrch = [a \in Addr |-> NoSrch]
    /\ why = [a \in Addr |-> ""]
    /\ vendor = FullVendor
    /\ faults = 0
    /\ ioFault = FALSE
    /\ tainted = ~WellFormed(file)
    /\ entities = [a \in Addr |-> NoEntities]

\* no config-flow step and no stand-alone parse so far
IdleFlow == config_entries = {} /\ flow_result = NoResult
IdleParse == parse_data = NoBody /\ parse_result = NoParse
IdleEntity == ha_state = NoState

Init == InitSensor /\ IdleFlow /\ IdleParse /\ IdleEntity

\* ------------------------------------------------------------------------
\* Control flow between the functions of one cycle
\* ------------------------------------------------------------------------
\* an exception leaves get_waste_data (caught at line 328)
Raise(l) == [pc |-> "finish", loc |-> [l EXCEPT !.waste_data = RaisedBody]]

\* get_waste_data returns None (lines 245, 250)
ReturnNone(l) == [pc |-> "finish", loc |-> [l EXCEPT !.waste_data = NoBody]]

\* _get_auth_token returns v: to get_waste_data (lines 242-247) or to
\* search_building_id (lines 171-176)
TokReturn(l, v) ==
    IF l.stage = "get_waste_data"
    THEN IF Truthy(v)
         THEN [pc |-> "tok_load",
               loc |-> [l EXCEPT !.auth_token = v,
                                 !.stage = "search_building_id"]]
         ELSE ReturnNone([l EXCEPT !.auth_token = v])
    ELSE IF Truthy(v)
         THEN [pc |-> "search_load",
               loc |-> [l EXCEPT !.search_token = v, !.stage = "search"]]
         ELSE ReturnNone([l EXCEPT !.search_token = v])

\* _save_cache_data returns: to _get_auth_token (lines 159-164) or to
\* search_building_id (lines 224-227, then get_waste_data line 248)
AfterSave(l) ==
    IF l.stage = "search"
    THEN [pc |-> "waste_call", loc |-> l]
    ELSE TokReturn(l, l.cache_data.token)

\* async_update_data_for_address after the executor job (lines 320-329)
\* and the coordinator taking the outcome (lines 331-337); a refresh of a
\* coordinator that has no data yet is the first refresh of line 339
Finish(a, w, stage) ==
    LET res == async_update_data_for_address(w) IN
    /\ data' = [data EXCEPT ![a] = CoordinatorData(@, res)]
    /\ last_update_success' =
           [last_update_success EXCEPT ![a] = res.k = "data"]
    /\ why' = [why EXCEPT ![a] = cause(w, stage)]
    /\ entities' = [entities EXCEPT ![a] =
                       IF data[a].k = "None" THEN setup_entities(res) ELSE @]
    /\ pc' = [pc EXCEPT ![a] = "idle"]
    /\ loc' = [loc EXCEPT ![a] = NoLocals]
    /\ calls' = [calls EXCEPT ![a] = <<>>]
    /\ served' = [served EXCEPT ![a] = TRUE]

\* the thread of address a goes on at r after adding call c (or none) to
\* its calls, served or not
Goto(a, r, c, ok) ==
    IF r.pc = "finish"
    THEN Finish(a, r.loc.waste_data,
                IF c = "" THEN "token" ELSE c)
    ELSE /\ pc' = [pc EXCEPT ![a] = r.pc]
         /\ loc' = [loc EXCEPT ![a] = r.loc]
         /\ calls' = [calls EXCEPT ![a] = IF c = "" THEN @ ELSE Append(@, c)]
         /\ served' = [served EXCEPT ![a] = @ /\ ok]
         /\ UNCHANGED <<data, last_update_success, why, entities>>

\* bookkeeping of a search_building_id call that returns after its save
SrchSaved(a, l, persisted) ==
    lastSrch' = [lastSrch EXCEPT ![a] =
                    IF l.stage # "search" THEN @
                    ELSE IF persisted
                    THEN [out |-> "saved",
                          at |-> l.cache_data.buildings[a].last_updated.t,
                          ret |-> l.query_param]
                    ELSE NoSrch]

\* ------------------------------------------------------------------------
\* Actions
\* ------------------------------------------------------------------------
\* cycles started so far, all addresses
RECURSIVE Sum(_, _)
Sum(f, S) ==
    IF S = {} THEN 0
    ELSE LET x == CHOOSE y \in S : TRUE IN f[x] + Sum(f, S \ {x})

Started == Sum(cycles, Addr)

\* the environment answers, well (ok) or with one more fault
Env(ok) ==
    /\ ok \/ faults < MaxFaults
    /\ faults' = IF ok THEN faults ELSE faults + 1

\* the coordinator starts a refresh of address a (first refresh, line 339,
\* or the periodic one, lines 331-337); get_waste_data begins at line 242
StartCycle(a) ==
    /\ pc[a] = "idle"
    /\ Started < MaxCycles
    /\ pc' = [pc EXCEPT ![a] = "tok_load"]
    /\ loc' = [loc EXCEPT ![a] =
                  [NoLocals EXCEPT !.stage = "get_waste_data",
                                   !.fresh_start = file.k = "absent"]]
    /\ cycles' = [cycles EXCEPT ![a] = @ + 1]
    /\ UNCHANGED <<now, file, data, last_update_success, calls, served,
                   lastSrch, why, faults, ioFault, tainted, vendor, entities>>

\* _get_auth_token, lines 103-119: load, parse the expiration, test it
TokLoad(a) ==
    /\ pc[a] = "tok_load"
    /\ LET r == load_cache_data(file)
           d == r.doc
           l == loc[a]
           raises == \/ r.k # "dict"
                     \/ /\ d.token_expiration_time.k # "None"
                        /\ FromIsoRaises(d.token_expiration_time)
           fresh == ~raises /\ TokenFresh(d.token, d.token_expiration_time, now)
       IN Goto(a, IF raises THEN Raise(l)
                  ELSE IF fresh THEN TokReturn(l, d.token)
                  ELSE [pc |-> "tok_login",
                        loc |-> [l EXCEPT !.cache_data = d]],
               "", TRUE)
    /\ UNCHANGED <<now, file, cycles, lastSrch, faults, ioFault, tainted,
                   vendor>>

\* _get_auth_token, lines 120-158: the login call and what follows it up
\* to the call of _save_cache_data
TokLogin(a) ==
    /\ pc[a] = "tok_login"
    /\ \E resp \in LoginResponses(now, vendor) :
         LET l == loc[a]
             tok == resp.token
             ok == resp.k = "token"
         IN Env(ok) /\
            Goto(a, IF ~ok THEN TokReturn(l, NoToken)
                    ELSE [pc |-> "save_open",
                          loc |-> [l EXCEPT !.cache_data =
                              StoreToken(l.cache_data, tok,
                                  new_token_expiration_time(tok, now))]],
                 "login", ok)
    /\ UNCHANGED <<now, file, cycles, lastSrch, ioFault, tainted, vendor>>

\* _save_cache_data, line 82: open(path, 'w') truncates the file, or
\* raises IOError (line 85) and the call returns
SaveOpen(a) ==
    /\ pc[a] = "save_open"
    /\ LET l == loc[a] IN
       \/ /\ file' = PartialFile
          /\ Goto(a, [pc |-> "save_write", loc |-> l], "", TRUE)
          /\ UNCHANGED <<lastSrch, faults, ioFault>>
       \/ /\ Env(FALSE)
          /\ file' = file
          /\ Goto(a, AfterSave(l), "", TRUE)
          /\ SrchSaved(a, l, FALSE)
          /\ ioFault' = TRUE
    /\ UNCHANGED <<now, cycles, tainted, vendor>>

\* _save_cache_data, lines 83-86: json.dump and the close of the file, or
\* an IOError on the way; what another thread wrote since the open is
\* overwritten in place
SaveWrite(a) ==
    /\ pc[a] = "save_write"
    /\ LET l == loc[a]
           mine == json_dump(l.cache_data)
       IN \/ /\ file' \in IF file.k = "doc" /\ file # mine
                          THEN {mine, PartialFile} ELSE {mine}
             /\ Goto(a, AfterSave(l), "", TRUE)
             /\ SrchSaved(a, l, file' = mine)
             /\ UNCHANGED <<faults, ioFault>>
          \/ /\ Env(FALSE)
             /\ file' \in {file, PartialFile}
             /\ Goto(a, AfterSave(l), "", TRUE)
             /\ SrchSaved(a, l, FALSE)
             /\ ioFault' = TRUE
    /\ UNCHANGED <<now, cycles, tainted, vendor>>

\* search_building_id, lines 176-191: load, look the address up, test the
\* age of the entry
SearchLoad(a) ==
    /\ pc[a] = "search_load"
    /\ LET r == load_cache_data(file)
           d == r.doc
           l == loc[a]
           b == d.buildings[a]
           usable == r.k = "dict" /\ BuildingUsable(b)
           raises == \/ r.k # "dict"
                     \/ usable /\ FromIsoRaises(b.last_updated)
           fresh == usable /\ ~raises /\ BuildingFresh(b, now)
       IN /\ Goto(a, IF raises THEN Raise(l)
                     ELSE IF fresh
                     THEN [pc |-> "waste_call",
                           loc |-> [l EXCEPT !.query_param = b.query_param]]
                     ELSE [pc |-> "search_call",
                           loc |-> [l EXCEPT !.cache_data = d]],
                  "", TRUE)
          /\ UNCHANGED faults
          /\ lastSrch' = [lastSrch EXCEPT ![a] =
                 IF raises THEN NoSrch
                 ELSE IF fresh
                 THEN IF @.out = "saved"
                      THEN [out |-> "hit", at |-> 0, ret |-> b.query_param]
                      ELSE NoSrch
                 ELSE @]
    /\ UNCHANGED <<now, file, cycles, ioFault, tainted, vendor>>

\* search_building_id, lines 193-236: the search call and what follows it
\* up to the call of _save_cache_data
SearchCall(a) ==
    /\ pc[a] = "search_call"
    /\ \E resp \in SearchResponses(vendor) :
         LET l == loc[a]
             ok == resp.k = "ok"
         IN /\ Env(ok)
            /\ lastSrch' = [lastSrch EXCEPT ![a] = IF ok THEN @ ELSE NoSrch]
            /\ Goto(a, IF resp.k = "nondict" THEN Raise(l)
                       ELSE IF ~ok THEN ReturnNone(l)
                       ELSE [pc |-> "save_open",
                             loc |-> [l EXCEPT
                                 !.query_param = resp.query,
                                 !.cache_data =
                                     StoreBuilding(l.cache_data, a,
                                                   resp.query, now)]],
                    "search", ok)
    /\ UNCHANGED <<now, file, cycles, ioFault, tainted, vendor>>

\* get_waste_data, lines 252-272: the waste call; its outcome goes to
\* async_update_data_for_address
WasteCall(a) ==
    /\ pc[a] = "waste_call"
    /\ \E resp \in WasteResponses(now) :
         LET ok == resp.k = "ok" /\ resp.body \in GoodBodies IN
         /\ Env(ok)
         /\ Goto(a, [pc |-> "finish",
                     loc |-> [loc[a] EXCEPT !.waste_data = resp.body]],
                 "waste", ok)
    /\ UNCHANGED <<now, file, cycles, lastSrch, ioFault, tainted, vendor>>

\* time passes between cycles: a cycle takes seconds, the instants of
\* TimePoints are days apart
Tick ==
    /\ \A a \in Addr : pc[a] = "idle"
    /\ Started < MaxCycles
    /\ \E t \in TimePoints : t > now /\ now' = t
    /\ UNCHANGED <<file, pc, loc, data, last_update_success, cycles, calls,
                   served, lastSrch, why, faults, ioFault, tainted, vendor,
                   entities>>

Step(a) ==
    \/ StartCycle(a)
    \/ TokLoad(a)
    \/ TokLogin(a)
    \/ SaveOpen(a)
    \/ SaveWrite(a)
    \/ SearchLoad(a)
    \/ SearchCall(a)
    \/ WasteCall(a)

\* the refreshes of the addresses one after the other
Serial == \A a, b \in Addr : pc[a] # "idle" /\ pc[b] # "idle" => a = b
Next ==
    /\ Tick \/ \E a \in Addr : Step(a)
    /\ Serial'
    /\ UNCHANGED <<flowVars, parseVars, entityVars>>

Spec == Init /\ [][Next]_vars

\* one scheduling pass: every address is refreshed once and the cycles run
\* on executor threads at the same time, from a cache file left by earlier
\* passes and from the values the coordinators hold
PassFiles ==
    { AbsentFile,
      DocFile(Doc(Token("plain", "noexp", 0), isoformat(0),
                  [a \in Addr |-> IF a = "A"
                                  THEN Building("B123", isoformat(0))
                                  ELSE NoBuilding])) }

PassData == {NoData, async_update_data_for_address(Schedule(0))}

InitPass ==
    /\ now = BUILDING_CACHE_LIFETIME - 1
    /\ file \in PassFiles
    /\ pc = [a \in Addr |-> "idle"]
    /\ loc = [a \in Addr |-> NoLocals]
    /\ data \in [Addr -> PassData]
    /\ last_update_success = [a \in Addr |-> TRUE]
    /\ cycles = [a \in Addr |-> 0]
    /\ calls = [a \in Addr |-> <<>>]
    /\ served = [a \in Addr |-> TRUE]
    /\ lastSrch = [a \in Addr |-> NoSrch]
    /\ why = [a \in Addr |-> ""]
    /\ vendor = PlainVendor
    /\ faults = 0
    /\ ioFault = FALSE
    /\ tainted = FALSE
    /\ entities = [a \in Addr |-> IF data[a].k = "data"
                                   THEN setup_entities(data[a])
                                   ELSE NoEntities]
    /\ IdleFlow /\ IdleParse /\ IdleEntity

NextPass ==
    /\ \E a \in Addr : Step(a) /\ cycles'[a] <= 1
    /\ UNCHANGED <<flowVars, parseVars, entityVars>>
SpecPass == InitPass /\ [][NextPass]_vars

\* AffarsverkenWasteConfigFlow.async_step_user, lines 14-46 of
\* config_flow.py: the form without input; with input, abort when an entry
\* with the same unique id exists (line 29), else create the entry
async_step_user(user_input) ==
    /\ IF user_input.k = "None"
       THEN /\ flow_result' = [type |-> "form", input |-> user_input]
            /\ UNCHANGED config_entries
       ELSE IF \E e \in config_entries :
                   e.unique_id = unique_id(user_input.address)
       THEN /\ flow_result' = [type |-> "abort", input |-> user_input]
            /\ UNCHANGED config_entries
       ELSE /\ flow_result' = [type |-> "create_entry", input |-> user_input]
            /\ config_entries' = config_entries \cup {ConfigEntry(user_input)}
    /\ UNCHANGED <<sensorVars, parseVars, entityVars>>

\* the config flow alone, before any entry is set up
InitFlow == Init /\ file = AbsentFile
NextFlow == \E user_input \in UserInputs : async_step_user(user_input)
SpecFlow == InitFlow /\ [][NextFlow]_vars

\* one call of parse_collection_dates(data), lines 274-300
ParseCall ==
    /\ parse_result.k = "pending"
    /\ LET p == parse_collection_dates(parse_data) IN
       parse_result' = [k |-> IF p.raised THEN "raised" ELSE "returned",
                        dates |-> p.dates]
    /\ UNCHANGED <<parse_data, sensorVars, flowVars, entityVars>>

\* the parser alone, over the bodies of ParseInputs
InitParse ==
    /\ InitSensor /\ file = AbsentFile
    /\ IdleFlow
    /\ parse_data \in ParseInputs
    /\ parse_result = NoParse
    /\ IdleEntity
NextParse == ParseCall
SpecParse == InitParse /\ [][NextParse]_vars

\* async_write_ha_state, registered at line 421 as the coordinator's
\* listener: Home Assistant reads native_value (lines 374-381) and
\* extra_state_attributes (lines 383-407) of the entity and records them
async_write_ha_state(a, waste_type, today) ==
    /\ entities[a].k = "created"
    /\ waste_type \in entities[a].types
    /\ ha_state' =
           [address |-> a, waste_type |-> waste_type,
            native_value |-> native_value(data[a], waste_type),
            attributes |-> extra_state_attributes(data[a], waste_type, today)]
    /\ UNCHANGED <<sensorVars, flowVars, parseVars>>

\* the entities of address A after its first refresh has succeeded, over
\* the bodies of EntityBodies
InitEntity ==
    /\ now = 0
    /\ file = AbsentFile
    /\ pc = [a \in Addr |-> "idle"]
    /\ loc = [a \in Addr |-> NoLocals]
    /\ \E d \in EntityData :
           data = [a \in Addr |-> IF a = "A" THEN d ELSE NoData]
    /\ last_update_success = [a \in Addr |-> TRUE]
    /\ cycles = [a \in Addr |-> IF a = "A" THEN 1 ELSE 0]
    /\ calls = [a \in Addr |-> <<>>]
    /\ served = [a \in Addr |-> TRUE]
    /\ lastSrch = [a \in Addr |-> NoSrch]
    /\ why = [a \in Addr |-> ""]
    /\ vendor = FullVendor
    /\ faults = 0
    /\ ioFault = FALSE
    /\ tainted = FALSE
    /\ entities = [a \in Addr |-> IF data[a].k = "data"
                                   THEN setup_entities(data[a])
                                   ELSE NoEntities]
    /\ IdleFlow /\ IdleParse /\ IdleEntity
NextEntity ==
    \E a \in Addr, waste_type \in {"Paper", "Glass"}, today \in Todays :
        async_write_ha_state(a, waste_type, today)
SpecEntity == InitEntity /\ [][NextEntity]_vars

\* ------------------------------------------------------------------------
\* Properties
\* ------------------------------------------------------------------------
\* the thread of address a takes this step
Moved(a) == pc'[a] # pc[a] \/ loc'[a] # loc[a]

\* this step ends the cycle of address a
Ends(a) == pc[a] # "idle" /\ pc'[a] = "idle"

\* _get_auth_token returns tok to its caller in this step
Returns(a, tok) ==
    IF loc[a].stage = "get_waste_data"
    THEN /\ pc'[a] = "tok_load"
         /\ loc'[a].stage = "search_building_id"
         /\ loc'[a].auth_token = tok
    ELSE /\ pc'[a] = "search_load"
         /\ loc'[a].search_token = tok

\* C1: whenever the cache document holds a non-empty token and an
\* expiration strictly later than now, _get_auth_token returns exactly that
\* token, issues no network call and leaves the cache file as it is
C1_TokenReuse ==
    [][\A a \in Addr :
         ( /\ pc[a] = "tok_load" /\ Moved(a)
           /\ file.k = "doc"
           /\ Truthy(file.doc.token)
           /\ file.doc.token_expiration_time.k = "iso"
           /\ file.doc.token_expiration_time.t > now )
         => /\ Returns(a, file.doc.token)
            /\ calls'[a] = calls[a]
            /\ faults' = faults
            /\ file' = file]_vars

\* the first _get_auth_token of a cycle has returned the cached token
\* without any call
C1_Witness ==
    \E a \in Addr :
        /\ pc[a] = "tok_load"
        /\ loc[a].stage = "search_building_id"
        /\ calls[a] = <<>>
        /\ file.k = "doc"
        /\ Truthy(loc[a].auth_token)
        /\ loc[a].auth_token = file.doc.token

\* the cache document _load_cache_data hands out for a file it can decode
DocOf(f) == IF f.k = "doc" THEN f.doc ELSE EmptyDoc
Decodable(f) ==
    /\ f.k \notin {"badbytes", "nondict"}
    /\ f.doc.token_expiration_time.k # "garbage"

\* C2: whenever the cached expiration is equal to now or earlier, or no
\* token (or no expiration) is cached, _get_auth_token goes on to the login
\* call and issues it; it returns the cached token only while now is
\* strictly earlier than the expiration
C2_ExpiryBoundary ==
    [][\A a \in Addr :
         LET d == DocOf(file)
             stale == \/ ~Truthy(d.token)
                      \/ d.token_expiration_time.k = "None"
                      \/ d.token_expiration_time.t <= now
         IN /\ ( pc[a] = "tok_load" /\ Moved(a) /\ Decodable(file) /\ stale )
               => /\ pc'[a] = "tok_login"
                  /\ loc'[a].auth_token = loc[a].auth_token
                  /\ loc'[a].search_token = loc[a].search_token
            /\ ( /\ pc[a] = "tok_load" /\ Moved(a)
                 /\ pc'[a] \notin {"tok_login", "idle"} )
               => /\ Truthy(d.token)
                  /\ d.token_expiration_time.k = "iso"
                  /\ now < d.token_expiration_time.t
            /\ ( pc[a] = "tok_login" /\ Moved(a) )
               => \/ calls'[a] = Append(calls[a], "login")
                  \/ Ends(a) /\ why'[a] = "login"]_vars

\* a token whose expiration equals now has sent the client to the login call
C2_Witness ==
    \E a \in Addr :
        /\ pc[a] = "tok_login"
        /\ file.k = "doc"
        /\ Truthy(file.doc.token)
        /\ file.doc.token_expiration_time.k = "iso"
        /\ file.doc.token_expiration_time.t = now

\* C3: with a valid token, search_building_id returns the cached
\* query_param without a search call exactly when now - last_updated is
\* less than 30 days; at exactly 30 days or more it goes on to the search
\* call
C3_BuildingBoundary ==
    [][\A a \in Addr :
         LET b == DocOf(file).buildings[a] IN
         ( /\ pc[a] = "search_load" /\ Moved(a)
           /\ file.k = "doc"
           /\ b.k = "dict" /\ b.query_param # ""
           /\ b.last_updated.k = "iso" )
         => IF now - b.last_updated.t < BUILDING_CACHE_LIFETIME
            THEN /\ pc'[a] = "waste_call"
                 /\ loc'[a].query_param = b.query_param
                 /\ calls'[a] = calls[a]
                 /\ file' = file
            ELSE /\ pc'[a] = "search_call"
                 /\ calls'[a] = calls[a]]_vars

\* an entry exactly 30 days old has sent the client to the search call
C3_Witness ==
    \E a \in Addr :
        /\ pc[a] = "search_call"
        /\ file.k = "doc"
        /\ BuildingUsable(file.doc.buildings[a])
        /\ now - file.doc.buildings[a].last_updated.t = BUILDING_CACHE_LIFETIME

C5_LoadNeverFails ==
    [][\A a \in Addr :
         ( /\ pc[a] \in {"tok_load", "search_load"} /\ Moved(a)
           /\ file.k # "doc" )
         => /\ pc'[a] = IF pc[a] = "tok_load" THEN "tok_login"
                        ELSE "search_call"
            /\ loc'[a].cache_data = EmptyDoc]_vars

\* C6: a save leaves on disk either the full new document or exactly what
\* was there before; the file is never seen truncated or partly written
C6_SaveAllOrNothing ==
    [][file' # file =>
          \E a \in Addr :
              /\ pc[a] \in {"save_open", "save_write"}
              /\ file' = DocFile(loc[a].cache_data)]_vars

\* C7: for every content of the cache document and every outcome of the
\* login call, _get_auth_token returns a non-empty token or None and never
\* raises; a failed login leaves the cache file unchanged
C7_TokenNeverFatal ==
    [][\A a \in Addr :
         ( /\ pc[a] \in {"tok_load", "tok_login"} /\ Moved(a)
           /\ file.k \notin {"badbytes", "nondict"} )
         => /\ ~(Ends(a) /\ why'[a] = "exception")
            /\ (Ends(a) => file' = file)]_vars

\* C8: a cycle that starts without a cache file, is served every call, gets
\* a token that stays valid and meets no I/O error issues one login, one
\* search and one waste call in that order, ends in success, and leaves the
\* token, its expiration and the building entry in the cache document
C8_EndToEnd ==
    [][\A a \in Addr :
         ( /\ Ends(a)
           /\ loc[a].fresh_start
           /\ faults = 0 /\ faults' = 0
           /\ loc[a].auth_token.claim = "exp"
                 => now < loc[a].auth_token.exp - TOKEN_SAFETY_MARGIN )
         => /\ pc[a] = "waste_call"
            /\ calls[a] = <<"login", "search">>
            /\ last_update_success'[a]
            /\ data'[a].k = "data"
            /\ DOMAIN data'[a].parsed_dates # {}
            /\ data'[a].raw_data \in GoodBodies
            /\ file'.k = "doc"
            /\ file'.doc.token = loc[a].auth_token
            /\ file'.doc.token_expiration_time =
                   isoformat(new_token_expiration_time(loc[a].auth_token, now))
            /\ file'.doc.buildings[a] =
                   Building(loc[a].query_param, isoformat(now))]_vars

\* the cycle from an empty cache stands before its waste call
C8_Witness ==
    \E a \in Addr :
        /\ pc[a] = "waste_call"
        /\ loc[a].fresh_start
        /\ faults = 0
        /\ calls[a] = <<"login", "search">>
        /\ loc[a].auth_token.id = "long"
        /\ file.k = "doc"
        /\ file.doc.buildings[a].query_param = loc[a].query_param

\* C9: in a pass of two addresses, a cycle whose waste call fails ends in
\* failure; a cycle fails only by a failed call of its own, so the other
\* address still completes successfully and takes its new values; no step
\* of one address changes the values of the other or leaves it unable to
\* go on
C9_FailureIsolation ==
    /\ [][\A a \in Addr :
            /\ ( pc[a] = "waste_call" /\ Moved(a) /\ faults' # faults )
               => /\ Ends(a)
                  /\ ~last_update_success'[a]
                  /\ why'[a] \in {"waste", "parse", "norecords"}
            /\ ( Ends(a) /\ faults' = faults )
               => /\ last_update_success'[a]
                  /\ data'[a].k = "data"
                  /\ data'[a].raw_data \in GoodBodies
            /\ Moved(a)
               => \A b \in Addr \ {a} :
                      /\ data'[b] = data[b]
                      /\ last_update_success'[b] = last_update_success[b]
                      /\ pc'[b] = pc[b]]_vars
    /\ [](\A a \in Addr : pc[a] # "idle" => ENABLED Step(a))

\* A failed at its waste call and shows its earlier values, B succeeded in
\* the same pass and shows the schedule of the day
C9_Witness ==
    /\ pc["A"] = "idle" /\ pc["B"] = "idle"
    /\ cycles["A"] = 1 /\ cycles["B"] = 1
    /\ why["A"] = "waste" /\ ~last_update_success["A"]
    /\ data["A"].raw_data = Schedule(0)
    /\ last_update_success["B"]
    /\ data["B"].raw_data = Schedule(now)
    /\ Schedule(now) # Schedule(0)

\* C10: the values of an address change only when a cycle of that address
\* succeeds, and then to the result of that cycle; a cycle that fails at
\* any stage leaves parsed_dates and raw_data, and so every native_value,
\* as they were
C10_LastKnownGood ==
    [][\A a \in Addr :
         /\ data'[a] # data[a]
            => /\ Ends(a) /\ pc[a] = "waste_call"
               /\ last_update_success'[a]
         /\ ( Ends(a) /\ last_update_success'[a] )
            => /\ data'[a].k = "data"
               /\ data'[a].raw_data \in WasteBodies
               /\ data'[a].parsed_dates =
                      parse_collection_dates(data'[a].raw_data).dates
               /\ DOMAIN data'[a].parsed_dates # {}
         /\ ( Ends(a) /\ ~last_update_success'[a] )
            => /\ data'[a] = data[a]
               /\ \A t \in {"Paper", "Glass"} :
                      native_value(data'[a], t) = native_value(data[a], t)]_vars

\* an address shows the values of an earlier success after a failed cycle
C10_Witness ==
    \E a \in Addr :
        /\ pc[a] = "idle"
        /\ ~last_update_success[a]
        /\ data[a].k = "data"
        /\ cycles[a] >= 2

\* C11: the cache load and save pairs of two addresses are not mutually
\* exclusive: a save that completes without I/O error puts on disk exactly
\* the document its own cycle loaded and changed, whatever another cycle
\* has saved since that load (last write wins), so an entry saved by one
\* cycle can be missing after the save of the other
C11_CacheRace ==
    [][\A a \in Addr :
         ( /\ pc[a] = "save_write" /\ Moved(a)
           /\ faults' = faults /\ file'.k = "doc" )
         => /\ file' = DocFile(loc[a].cache_data)
            /\ \A b \in Addr \ {a} :
                   file'.doc.buildings[b] = loc[a].cache_data.buildings[b]]_vars

\* both cycles resolved their address and saved it without any error, and
\* the entry B saved is no longer in the cache document
C11_Witness ==
    /\ faults = 0 /\ ~ioFault
    /\ lastSrch["A"].out = "saved"
    /\ lastSrch["B"].out = "saved"
    /\ file.k = "doc"
    /\ BuildingUsable(file.doc.buildings["A"])
    /\ file.doc.buildings["B"] = NoBuilding

\* C12: a cycle whose waste call brings a structurally valid body from
\* which parse_collection_dates yields zero records ends as a failed cycle
\* with its cause, and the values of the address stay as they were; every
\* successful cycle result has at least one parsed date
C12_ZeroRecordsFail ==
    /\ [][\A a \in Addr :
            /\ ( Ends(a) /\ why'[a] = "norecords" )
               => /\ pc[a] = "waste_call"
                  /\ ~last_update_success'[a]
                  /\ data'[a] = data[a]
            /\ ( Ends(a) /\ last_update_success'[a] )
               => /\ why'[a] = ""
                  /\ DOMAIN data'[a].parsed_dates # {}]_vars
    /\ [](\A a \in Addr :
             data[a].k = "data" => DOMAIN data[a].parsed_dates # {})

\* a cycle has failed for want of records after an earlier success
C12_Witness ==
    \E a \in Addr :
        /\ pc[a] = "idle"
        /\ why[a] = "norecords"
        /\ ~last_update_success[a]
        /\ data[a].k = "data"

\* C13: when the first refresh of an address fails, the set-up ends as not
\* ready and no entity is created; an address in that state has no values
\* and no entities, an address whose cycle failed after a success has
\* both, so the two states are told apart
C13_FirstRefreshGate ==
    /\ [][\A a \in Addr :
            ( Ends(a) /\ data[a].k = "None" /\ ~last_update_success'[a] )
            => /\ entities'[a].k = "not_ready"
               /\ entities'[a].types = {}
               /\ data'[a] = NoData]_vars
    /\ [](\A a \in Addr :
             /\ entities[a].k = "not_ready"
                => data[a] = NoData /\ entities[a].types = {}
             /\ data[a].k = "data"
                => entities[a].k = "created" /\ entities[a].types # {})

\* the first refresh of an address has failed
C13_Witness ==
    \E a \in Addr :
        /\ pc[a] = "idle"
        /\ cycles[a] = 1
        /\ ~last_update_success[a]
        /\ entities[a].k = "not_ready"

\* the normalized key of an address: spaces replaced by underscores,
\* lower-cased
Key(address) == lower(replace(address, " ", "_"))

\* C14: no two config entries have addresses with the same normalized key;
\* a submission whose address normalizes to a registered key is aborted
\* and creates no entry, every other submission creates exactly its entry
C14_NoDuplicate ==
    /\ [](\A e1, e2 \in config_entries :
             Key(e1.data.address) = Key(e2.data.address) => e1 = e2)
    /\ [][\A u \in UserInputs \ {NoInput} :
            ( flow_result' # flow_result /\ flow_result'.input = u )
            => IF \E e \in config_entries :
                      Key(e.data.address) = Key(u.address)
               THEN /\ flow_result'.type = "abort"
                    /\ config_entries' = config_entries
               ELSE /\ flow_result'.type = "create_entry"
                    /\ config_entries' = config_entries \cup {ConfigEntry(u)}
                    /\ ConfigEntry(u) \notin config_entries]_vars

\* an address that differs from a registered one in case and in space
\* against underscore has been refused
C14_Witness ==
    /\ flow_result.type = "abort"
    /\ \E e \in config_entries :
          /\ e.data.address # flow_result.input.address
          /\ e.data.address = <<"A", " ", "1">>
          /\ flow_result.input.address = <<"a", "_", "1">>
    /\ Cardinality(config_entries) = 2

\* the entries of a services list that have a non-empty title and a
\* nextPickup that parses as a date, and the mapping they define, the last
\* entry of a title winning
ValidEntry(e) ==
    /\ e.k = "dict"
    /\ e.title \notin {NoneStr, ""}
    /\ e.nextPickup \notin {NoneStr, "", NumberValue}
    /\ strptime(e.nextPickup) # NoDate
ExpectedDates(items) ==
    LET valid == {i \in DOMAIN items : ValidEntry(items[i])}
        last(t) == CHOOSE i \in valid :
                       /\ items[i].title = t
                       /\ \A j \in valid : items[j].title = t => j <= i
    IN [t \in {items[i].title : i \in valid} |->
           strptime(items[last(t)].nextPickup)]

\* C15: for every services list, parse_collection_dates returns, without
\* raising, exactly the mapping title -> date of the entries that have a
\* non-empty title and a nextPickup that parses, the last entry of a title
\* winning; every other entry is skipped
C15_ParseSkipRules ==
    ( parse_result.k # "pending" /\ parse_data.services.k = "list"
      /\ parse_data.k = "dict" )
    => /\ parse_result.k = "returned"
       /\ parse_result.dates = ExpectedDates(parse_data.services.items)

\* C16: for every decoded waste response without a services array (key
\* absent, value not a list, body not an object), parse_collection_dates
\* returns zero records and does not raise
C16_ParseFailureIsValue ==
    ( /\ parse_result.k # "pending"
      /\ parse_data.k # "dict" \/ parse_data.services.k # "list" )
    => /\ parse_result.k = "returned"
       /\ DOMAIN parse_result.dates = {}

\* C17: when the search call fails or brings an empty array, a body that is
\* not a list or a first element without a query field, search_building_id
\* returns nothing without raising, after exactly one search call, and the
\* cache file with its buildings map stays as it was
C17_ResolveFailureIsValue ==
    [][\A a \in Addr :
         ( pc[a] = "search_call" /\ Moved(a) /\ faults' # faults )
         => /\ Ends(a)
            /\ why'[a] = "search"
            /\ ~last_update_success'[a]
            /\ "search" \notin {calls[a][i] : i \in DOMAIN calls[a]}
            /\ file' = file]_vars

\* C18: after a successful login the expiration put into the cache
\* document with the token is exp - 5 minutes when the token carries an exp
\* claim and now + 1 hour when the claim is absent or the token cannot be
\* decoded, and that is what a completed save writes; a cached token is
\* returned exactly while now < that expiration
C18_TokenExpiration ==
    [][\A a \in Addr :
         LET d == loc'[a].cache_data
             tok == d.token
         IN /\ ( pc[a] = "tok_login" /\ pc'[a] = "save_open" )
               => /\ tok \in TokenTexts(now)
                  /\ tok.claim = "exp"
                     => d.token_expiration_time =
                            isoformat(tok.exp - TOKEN_SAFETY_MARGIN)
                  /\ tok.claim \in {"noexp", "undecodable"}
                     => d.token_expiration_time =
                            isoformat(now + DEFAULT_TOKEN_VALIDITY)
            /\ ( /\ pc[a] = "save_write" /\ Moved(a)
                 /\ faults' = faults /\ file'.k = "doc" )
               => /\ file'.doc.token = loc[a].cache_data.token
                  /\ file'.doc.token_expiration_time =
                         loc[a].cache_data.token_expiration_time
            /\ ( /\ pc[a] = "tok_load" /\ Moved(a) /\ file.k = "doc"
                 /\ Truthy(file.doc.token)
                 /\ file.doc.token_expiration_time.k = "iso" )
               => ( Returns(a, file.doc.token)
                      <=> now < file.doc.token_expiration_time.t )]_vars

\* a token that cannot be decoded is on disk with one hour of validity,
\* and a later cycle has reused it
C18_Witness ==
    \E a \in Addr :
        /\ file.k = "doc"
        /\ file.doc.token.claim = "undecodable"
        /\ file.doc.token_expiration_time = isoformat(DEFAULT_TOKEN_VALIDITY)
        /\ pc[a] = "tok_load"
        /\ loc[a].stage = "search_building_id"
        /\ loc[a].auth_token = file.doc.token
        /\ calls[a] = <<>>
        /\ cycles[a] + cycles[CHOOSE b \in Addr : b # a] = 2

\* C19: one refresh cycle issues at most one login call, and the bearer
\* token of its waste call is the token its search call was sent with,
\* whatever the cache state, the lifetime of the token and the outcome of
\* the cache saves
C19_OneTokenPerCycle ==
    /\ [][\A a \in Addr :
            ( pc[a] = "tok_login" /\ Moved(a) )
            => "login" \notin {calls[a][i] : i \in DOMAIN calls[a]}]_vars
    /\ [](\A a \in Addr :
             ( /\ pc[a] = "waste_call"
               /\ "search" \in {calls[a][i] : i \in DOMAIN calls[a]} )
             => loc[a].search_token = loc[a].auth_token)

\* C20: whatever the cache file holds and whatever failed before, a cycle
\* during which the vendor serves every call with well-formed data ends in
\* success and puts the schedule of the day in place of the stale values
C20_Recovery ==
    [][\A a \in Addr :
         ( Ends(a) /\ served[a] /\ faults' = faults )
         => /\ last_update_success'[a]
            /\ data'[a].k = "data"
            /\ data'[a].raw_data = Schedule(now)]_vars

\* C21: the entities of an address are the waste-stream titles of its
\* latest successful fetch: every title of the current parsed_dates has an
\* entity and the native_value of every entity is a date
C21_EntitiesFollowTitles ==
    \A a \in Addr :
        entities[a].k = "created"
        => /\ DOMAIN data[a].parsed_dates = entities[a].types
           /\ \A waste_type \in entities[a].types :
                  native_value(data[a], waste_type) # NoDate

\* C22: the attributes of an entity agree with its value: pickup_date is
\* the date of the value, and bin_size, bin_size_unit and
\* pickup_frequency_description are those of a services entry of the
\* entity's title whose nextPickup is that date
C22_AttributesMatchValue ==
    ha_state.attributes.k = "attrs"
    => LET items == data[ha_state.address].raw_data.services.items IN
       /\ strptime(ha_state.attributes.pickup_date) = ha_state.native_value
       /\ \E i \in DOMAIN items :
              /\ items[i].title = ha_state.waste_type
              /\ StrTruthy(items[i].nextPickup)
              /\ strptime(items[i].nextPickup) = ha_state.native_value
              /\ ha_state.attributes.bin_size = items[i].binSize
              /\ ha_state.attributes.bin_size_unit = items[i].binSizeUnit
              /\ ha_state.attributes.pickup_frequency_description =
                     items[i].pickupFrequencyDescription

====
